---- MODULE Spec2Model ----
(***************************************************************************)
(* Model of app.py: a Flask login service.  Each client owns one session   *)
(* cookie; a request loads the session from the cookie, runs its handler   *)
(* and stores the session back with the response.  api_login is modelled   *)
(* statement by statement (every call to the store may raise); the other   *)
(* handlers touch no shared state between their statements and are one     *)
(* action each.                                                            *)
(***************************************************************************)
EXTENDS Integers, FiniteSets, Sequences, TLC

\* ------------------------------------------------------------------ bounds
\* Connections left open by answered requests are counted up to MaxLeaked.
MaxLeaked == 1

\* ------------------------------------------------------------ input domain
Clients == {"c1", "c2"}

\* Python's None (a JSON field that is missing or null; SQL NULL).
None == "<None>"

\* The (username, password) fields clients submit: both rows of a duplicate,
\* a unique row, a wrong password, an unknown username, and a missing field.
Credentials ==
    { <<"alice", "pw1">>, <<"bob", "pw2">>, <<"bob", "pw1">>,
      <<"eve", "pw1">>, <<None, "pw2">>, <<"alice", None>> }

\* Request bodies of POST /api/login: a JSON object, no body at all, bytes
\* that are no JSON, and JSON that is no object (null, a list, a string).
BodyKinds == {"object", "absent", "notjson", "nonobject"}

\* The users table (id, username, password).  id is unique; rows 1 and 3
\* share username and password (the duplicate the design notes mention).
InitialUsers ==
    { [id |-> 1, username |-> "alice", password |-> "pw1"],
      [id |-> 2, username |-> "bob",   password |-> "pw2"],
      [id |-> 3, username |-> "alice", password |-> "pw1"] }

\* --------------------------------------------------------------- messages
MsgLoginOk     == "login_ok"          \* '登录成功！'
MsgBadLogin    == "bad_credentials"   \* '用户名或密码错误，请重试'
MsgServerError == "server_error"      \* '服务器错误: ' + str(e)
MsgLogout      == "logged_out"        \* '已成功登出'
MsgDbOk        == "db_ok"             \* '数据库连接正常'
MsgDbFailed    == "db_failed"         \* '数据库连接失败: ' + str(e)
MsgNotFound    == "not_found"         \* '页面不存在'
Guest          == "guest"             \* '访客'

VARIABLES
    users,    \* the rows of the users table
    cookie,   \* cookie[c]: the session client c holds between requests
    req,      \* req[c]: the request of c being handled, or the last one answered;
              \* req[c].session is the session as the request found it
    resp,     \* resp[c]: the answer to req[c] once it is "done"
    leaked,   \* store connections still open although their request was answered
    own       \* own[c]: history of c's own answered requests: the session its
              \* last successful login or logout announced, and which of
              \* the two (a logout that ended a login) came last

vars == <<users, cookie, req, resp, leaked, own>>

\* ---------------------------------------------------------------- session
\* A Flask session is a dict; keys holds the keys present.
EmptySession == [keys |-> {}, user_id |-> 0, username |-> ""]

SessionSet(s, k, v) ==
    IF k = "user_id"
    THEN [s EXCEPT !.keys = @ \cup {"user_id"}, !.user_id = v]
    ELSE [s EXCEPT !.keys = @ \cup {"username"}, !.username = v]

SessionGet(s, k, default) ==
    IF k \in s.keys THEN s[k] ELSE default

SessionClear(s) == EmptySession

\* Mutant: return session is not None
is_logged_in_any_session(s) == TRUE

is_logged_in(s) == "user_id" \in s.keys

\* ------------------------------------------------------------- responses
NoResponse == [status |-> 0, kind |-> "none", body |-> [none |-> TRUE]]

Json(status, body) == [status |-> status, kind |-> "json", body |-> body]
Redirect(location) == [status |-> 302, kind |-> "redirect", body |-> [location |-> location]]
Render(template, args) == [status |-> 200, kind |-> "html", body |-> [template |-> template, args |-> args]]
\* What Flask answers when a view raises: its own 500 page, not the view's JSON.
Uncaught == [status |-> 500, kind |-> "uncaught", body |-> [none |-> TRUE]]

\* ---------------------------------------------------------------- requests
NoUser == [found |-> FALSE, id |-> 0, username |-> ""]
Row(r) == [found |-> TRUE, id |-> r.id, username |-> r.username]

NoRequest ==
    [route |-> "none", pc |-> "idle", body |-> "none",
     data_username |-> None, data_password |-> None,
     username |-> None, password |-> None,
     conn |-> "none", rows |-> {}, user |-> NoUser, exc |-> "none",
     session |-> EmptySession]

Idle(c) == req[c].pc \in {"idle", "done"}

\* A request of client c arrives: Flask opens the session from c's cookie.
NewRequest(c, route) ==
    [NoRequest EXCEPT !.route = route, !.pc = "run", !.session = cookie[c]]

Init ==
    /\ users = InitialUsers
    /\ cookie = [c \in Clients |-> EmptySession]
    /\ req = [c \in Clients |-> NoRequest]
    /\ resp = [c \in Clients |-> NoResponse]
    /\ leaked = 0
    /\ own = [c \in Clients |-> [by |-> "new", session |-> EmptySession]]

\* The handler of c returns r with its session s: the session goes back into
\* c's cookie, and a connection the handler left open stays open.
Answer(c, q, r, s) ==
    /\ req' = [req EXCEPT ![c] = [q EXCEPT !.pc = "done", !.rows = {}]]
    /\ resp' = [resp EXCEPT ![c] = r]
    /\ cookie' = [cookie EXCEPT ![c] = s]
    /\ leaked' = IF q.conn = "open" /\ leaked < MaxLeaked THEN leaked + 1 ELSE leaked
    /\ own' = [own EXCEPT ![c] =
                 IF q.route = "login" /\ r.kind = "json" /\ r.status = 200
                 THEN [by |-> "login",
                       session |-> [keys |-> {"user_id", "username"},
                                    user_id |-> q.user.id, username |-> r.body.username]]
                 ELSE IF q.route = "logout" /\ r.status = 200
                 THEN [by |-> IF is_logged_in(q.session) THEN "logout" ELSE @.by,
                       session |-> EmptySession]
                 ELSE @]
    /\ UNCHANGED users


\* ------------------------------------------------------------ page routes
\* GET /
\* Mutant: the test of index is inverted (if not is_logged_in()).
index_view_inverted(s) ==
    IF ~is_logged_in(s)
    THEN Redirect("/home")
    ELSE Render("login.html", [none |-> TRUE])

index_view(s) ==
    IF is_logged_in(s)
    THEN Redirect("/home")
    ELSE Render("login.html", [none |-> TRUE])

index(c) ==
    /\ Idle(c)
    /\ LET q == NewRequest(c, "index")
       IN Answer(c, q, index_view(q.session), q.session)

\* GET /login
login_page(c) ==
    /\ Idle(c)
    /\ LET q == NewRequest(c, "login_page")
       IN Answer(c, q, Render("login.html", [none |-> TRUE]), q.session)

\* GET /home
\* Mutant: the guard of /home is left out.
home_view_unguarded(s) ==
    Render("home.html", [username |-> SessionGet(s, "username", Guest)])

home_view(s) ==
    IF ~is_logged_in(s)
    THEN Redirect("/login")
    ELSE Render("home.html", [username |-> SessionGet(s, "username", Guest)])

\* Mutant: username = session.pop('username', '访客')
home_pops_username(c) ==
    /\ Idle(c)
    /\ LET q == NewRequest(c, "home")
       IN Answer(c, q, home_view(q.session),
                 IF is_logged_in(q.session)
                 THEN [q.session EXCEPT !.keys = @ \ {"username"}, !.username = ""]
                 ELSE q.session)

home(c) ==
    /\ Idle(c)
    /\ LET q == NewRequest(c, "home")
       IN Answer(c, q, home_view(q.session), q.session)

\* ------------------------------------------------------- GET /api/check
api_check_view(s) ==
    IF is_logged_in(s)
    THEN Json(200, [logged_in |-> TRUE, username |-> SessionGet(s, "username", None)])
    ELSE Json(200, [logged_in |-> FALSE])

api_check(c) ==
    /\ Idle(c)
    /\ LET q == NewRequest(c, "check")
       IN Answer(c, q, api_check_view(q.session), q.session)

\* ----------------------------------------------------- POST /api/logout
\* Mutant: session.pop('username') in place of session.clear()
api_logout_pops_username(c) ==
    /\ Idle(c)
    /\ LET q == NewRequest(c, "logout")
       IN Answer(c, q, Json(200, [success |-> TRUE, message |-> MsgLogout]),
                 [q.session EXCEPT !.keys = @ \ {"username"}, !.username = ""])

\* Mutant: logout refuses a client that is not logged in.
api_logout_requires_login(c) ==
    /\ Idle(c)
    /\ LET q == NewRequest(c, "logout")
       IN IF is_logged_in(q.session)
          THEN Answer(c, q, Json(200, [success |-> TRUE, message |-> MsgLogout]),
                      SessionClear(q.session))
          ELSE Answer(c, q, Json(401, [success |-> FALSE, message |-> MsgBadLogin]),
                      q.session)

\* Mutant: the session is one dict of the process, not one per client.
api_logout_everyone(c) ==
    /\ Idle(c)
    /\ LET q == NewRequest(c, "logout")
       IN /\ req' = [req EXCEPT ![c] = [q EXCEPT !.pc = "done"]]
          /\ resp' = [resp EXCEPT ![c] = Json(200, [success |-> TRUE, message |-> MsgLogout])]
          /\ cookie' = [d \in Clients |-> EmptySession]
          /\ own' = [own EXCEPT ![c] =
                       [by |-> IF is_logged_in(q.session) THEN "logout" ELSE @.by,
                        session |-> EmptySession]]
          /\ UNCHANGED <<users, leaked>>

api_logout(c) ==
    /\ Idle(c)
    /\ LET q == NewRequest(c, "logout")
       IN Answer(c, q, Json(200, [success |-> TRUE, message |-> MsgLogout]),
                 SessionClear(q.session))

\* ------------------------------------------------------ unmatched path
page_not_found(c) ==
    /\ Idle(c)
    /\ LET q == NewRequest(c, "unmatched")
       IN Answer(c, q, Json(404, [success |-> FALSE, message |-> MsgNotFound]), q.session)

\* ------------------------------------------------------------- the store
\* psycopg2.connect either gives an open connection or raises.
get_db_connection == {"open", "raise"}

\* WHERE username = %s AND password = %s: a NULL parameter equals nothing.
\* Mutant: WHERE username = %s (the password is not compared)
Matches_username_only(r, username, password) ==
    /\ username # None
    /\ r.username = username

Matches(r, username, password) ==
    /\ username # None
    /\ password # None
    /\ r.username = username
    /\ r.password = password

SelectUser(table, username, password) ==
    {Row(r) : r \in {x \in table : Matches(x, username, password)}}

\* ------------------------------------------------------ POST /api/login
\* The handler is cut at its calls to the store: each action is one call
\* together with the local statements that follow it up to the next call.
Step(c, q) ==
    /\ req' = [req EXCEPT ![c] = q]
    /\ resp' = [resp EXCEPT ![c] = NoResponse]
    /\ UNCHANGED <<users, cookie, leaked, own>>

\* except Exception as e: every exception raised in the try block is one.
\* Mutant: except psycopg2.OperationalError as e (a failed connect only)
Caught_OperationalError(exc) == exc = "connect"

Caught(exc) == exc \in {"body", "connect", "cursor", "execute", "fetch"}

\* Mutant: the except clause also drops the session.
api_login_except_clears(c, q, exc) ==
    Answer(c, [q EXCEPT !.exc = exc],
           Json(500, [success |-> FALSE, message |-> MsgServerError,
                      detail |-> exc]),
           SessionClear(q.session))

\* The statement at pc of q raises: control goes to the except clause, which
\* answers 500 and closes nothing.
api_login_except(c, q, exc) ==
    IF Caught(exc)
    THEN Answer(c, [q EXCEPT !.exc = exc],
                Json(500, [success |-> FALSE, message |-> MsgServerError,
                           detail |-> exc]),
                q.session)
    ELSE Answer(c, [q EXCEPT !.exc = exc], Uncaught, q.session)

\* Mutant: data = request.get_json(silent=True) or {}
api_login_parse_silent(c) ==
    /\ Idle(c)
    /\ \E b \in BodyKinds :
       \E d \in IF b = "object" THEN Credentials ELSE {<<None, None>>} :
          LET q == [NewRequest(c, "login") EXCEPT
                       !.pc = "parse", !.body = b,
                       !.data_username = d[1], !.data_password = d[2]]
          IN Step(c, [q EXCEPT !.pc = "connect",
                               !.username = q.data_username,
                               !.password = q.data_password])

\* data = request.get_json(); username = data.get('username');
\* password = data.get('password')
api_login_parse(c) ==
    /\ Idle(c)
    /\ \E b \in BodyKinds :
       \E d \in IF b = "object" THEN Credentials ELSE {<<None, None>>} :
          /\ LET q == [NewRequest(c, "login") EXCEPT
                          !.pc = "parse", !.body = b,
                          !.data_username = d[1], !.data_password = d[2]]
             IN IF b = "object"
                THEN Step(c, [q EXCEPT !.pc = "connect",
                                       !.username = q.data_username,
                                       !.password = q.data_password])
                ELSE api_login_except(c, q, "body")

\* conn = get_db_connection()
api_login_connect(c) ==
    /\ req[c].route = "login" /\ req[c].pc = "connect"
    /\ \E o \in get_db_connection :
          IF o = "open"
          THEN Step(c, [req[c] EXCEPT !.pc = "cursor", !.conn = "open"])
          ELSE api_login_except(c, req[c], "connect")

\* cursor = conn.cursor()
api_login_cursor(c) ==
    /\ req[c].route = "login" /\ req[c].pc = "cursor"
    /\ \/ Step(c, [req[c] EXCEPT !.pc = "execute"])
       \/ api_login_except(c, req[c], "cursor")

\* cursor.execute(query, (username, password))
api_login_execute(c) ==
    /\ req[c].route = "login" /\ req[c].pc = "execute"
    /\ \/ Step(c, [req[c] EXCEPT !.pc = "fetch",
                                 !.rows = SelectUser(users, req[c].username, req[c].password)])
       \/ api_login_except(c, req[c], "execute")

\* user = cursor.fetchone(): some row of the result, None when it is empty
api_login_fetch(c) ==
    /\ req[c].route = "login" /\ req[c].pc = "fetch"
    /\ \/ /\ req[c].rows = {}
          /\ Step(c, [req[c] EXCEPT !.pc = "close", !.user = NoUser])
       \/ \E r \in req[c].rows :
             Step(c, [req[c] EXCEPT !.pc = "close", !.user = r, !.rows = {}])
       \/ api_login_except(c, req[c], "fetch")

\* Mutant: session['user_id'] = user_id is left out.
api_login_result_no_user_id(c, q) ==
    IF q.user.found
    THEN Answer(c, q,
                Json(200, [success |-> TRUE, message |-> MsgLoginOk,
                           username |-> q.user.username]),
                SessionSet(q.session, "username", q.user.username))
    ELSE Answer(c, q,
                Json(401, [success |-> FALSE, message |-> MsgBadLogin]),
                q.session)

\* Mutant: a rejected login also ends the session (session.clear() in the else).
api_login_result_reject_clears(c, q) ==
    IF q.user.found
    THEN Answer(c, q,
                Json(200, [success |-> TRUE, message |-> MsgLoginOk,
                           username |-> q.user.username]),
                SessionSet(SessionSet(q.session, "user_id", q.user.id),
                           "username", q.user.username))
    ELSE Answer(c, q,
                Json(401, [success |-> FALSE, message |-> MsgBadLogin]),
                SessionClear(q.session))

\* Mutant: session['username'] = user_name is left out.
api_login_result_no_username(c, q) ==
    IF q.user.found
    THEN Answer(c, q,
                Json(200, [success |-> TRUE, message |-> MsgLoginOk,
                           username |-> q.user.username]),
                SessionSet(q.session, "user_id", q.user.id))
    ELSE Answer(c, q,
                Json(401, [success |-> FALSE, message |-> MsgBadLogin]),
                q.session)

\* Mutant: session.setdefault(...) in place of the two assignments.
api_login_result_setdefault(c, q) ==
    IF q.user.found
    THEN Answer(c, q,
                Json(200, [success |-> TRUE, message |-> MsgLoginOk,
                           username |-> q.user.username]),
                IF q.session.keys = {}
                THEN SessionSet(SessionSet(q.session, "user_id", q.user.id),
                                "username", q.user.username)
                ELSE q.session)
    ELSE Answer(c, q,
                Json(401, [success |-> FALSE, message |-> MsgBadLogin]),
                q.session)

\* Mutant: the rejection says which field was wrong.
api_login_result_names_field(c, q) ==
    IF q.user.found
    THEN Answer(c, q,
                Json(200, [success |-> TRUE, message |-> MsgLoginOk,
                           username |-> q.user.username]),
                SessionSet(SessionSet(q.session, "user_id", q.user.id),
                           "username", q.user.username))
    ELSE Answer(c, q,
                Json(401, [success |-> FALSE,
                           message |-> IF \E r \in users : r.username = q.username
                                       THEN "wrong_password"
                                       ELSE "unknown_user"]),
                q.session)

\* if user: ... else: ...
api_login_result(c, q) ==
    IF q.user.found
    THEN LET user_id == q.user.id
             user_name == q.user.username
             s == SessionSet(SessionSet(q.session, "user_id", user_id),
                             "username", user_name)
         IN Answer(c, q,
                   Json(200, [success |-> TRUE, message |-> MsgLoginOk,
                              username |-> user_name]),
                   s)
    ELSE Answer(c, q,
                Json(401, [success |-> FALSE, message |-> MsgBadLogin]),
                q.session)

\* cursor.close(); conn.close(); then the result is answered
api_login_close(c) ==
    /\ req[c].route = "login" /\ req[c].pc = "close"
    /\ api_login_result(c, [req[c] EXCEPT !.conn = "closed"])

\* --------------------------------------------------- GET /api/test-db
\* Mutant: the diagnostic writes a probe row (INSERT INTO users) and commits.
test_database_inserts(c) ==
    /\ Idle(c)
    /\ LET q == NewRequest(c, "test_db")
       IN /\ req' = [req EXCEPT ![c] = [q EXCEPT !.pc = "done", !.conn = "closed"]]
          /\ resp' = [resp EXCEPT ![c] =
                        Json(200, [success |-> TRUE, message |-> MsgDbOk,
                                   user_count |-> Cardinality(users) + 1])]
          /\ users' = users \cup {[id |-> 0, username |-> "probe", password |-> "probe"]}
          /\ UNCHANGED <<cookie, leaked, own>>

test_database(c) ==
    /\ Idle(c)
    /\ LET q == NewRequest(c, "test_db")
       IN \/ \E o \in get_db_connection :
               IF o = "open"
               THEN Answer(c, [q EXCEPT !.conn = "closed"],
                           Json(200, [success |-> TRUE, message |-> MsgDbOk,
                                      user_count |-> Cardinality(users)]),
                           q.session)
               ELSE Answer(c, q,
                           Json(500, [success |-> FALSE, message |-> MsgDbFailed]),
                           q.session)
          \/ \* cursor(), execute() or fetchone() raises after the connect
             Answer(c, [q EXCEPT !.conn = "open", !.exc = "query"],
                    Json(500, [success |-> FALSE, message |-> MsgDbFailed]),
                    q.session)

\* ------------------------------------------------------------ the system
Next ==
    \E c \in Clients :
       \/ index(c)
       \/ login_page(c)
       \/ home(c)
       \/ api_login_parse(c)
       \/ api_login_connect(c)
       \/ api_login_cursor(c)
       \/ api_login_execute(c)
       \/ api_login_fetch(c)
       \/ api_login_close(c)
       \/ api_check(c)
       \/ api_logout(c)
       \/ test_database(c)
       \/ page_not_found(c)

Spec == Init /\ [][Next]_vars


\* =================================================================== claims
Answered(c, route) == req[c].route = route /\ req[c].pc = "done"

\* The login of c went through the store without an exception.
LookedUp(c) == Answered(c, "login") /\ req[c].exc = "none"

\* The records that have both the username and the password c submitted.
MatchingRows(c) ==
    {r \in users : /\ r.username = req[c].data_username
                   /\ r.password = req[c].data_password}

SessionOf(r) ==
    [keys |-> {"user_id", "username"}, user_id |-> r.id, username |-> r.username]

\* C1: a login whose (username, password) equals those of a record, once the
\* store has answered the lookup, is answered 200 success:true with that
\* record's username, and the session then holds that record's id and
\* username; a /api/check of the same client after a successful login, with
\* no logout in between, reports logged_in:true with the username of the login.
C1_ValidLoginAuthenticates ==
    \A c \in Clients :
       /\ (LookedUp(c) /\ MatchingRows(c) # {}) =>
             /\ resp[c].kind = "json" /\ resp[c].status = 200
             /\ resp[c].body.success = TRUE
             /\ \E r \in MatchingRows(c) :
                   /\ resp[c].body.username = r.username
                   /\ cookie[c] = SessionOf(r)
       /\ (Answered(c, "check") /\ own[c].by = "login") =>
             resp[c] = Json(200, [logged_in |-> TRUE,
                                  username |-> own[c].session.username])

C1_Witness ==
    \E c \in Clients :
       /\ Answered(c, "check")
       /\ own[c].by = "login"
       /\ resp[c].body.username = "bob"

\* C2: a login of an ANONYMOUS client whose (username, password) no record
\* has, once the store has answered the lookup, is answered 401 success:false
\* and the session stays ANONYMOUS.
C2_UnknownPairRejected ==
    \A c \in Clients :
       (LookedUp(c) /\ MatchingRows(c) = {} /\ ~("user_id" \in req[c].session.keys)) =>
          /\ resp[c] = Json(401, [success |-> FALSE, message |-> MsgBadLogin])
          /\ cookie[c] = EmptySession

C2_Witness ==
    \E c \in Clients :
       /\ LookedUp(c)
       /\ req[c].data_username = "bob" /\ req[c].data_password = "pw1"
       /\ req[c].session = EmptySession
       /\ resp[c].status = 401

\* C3: every client starts ANONYMOUS, and a step changes a client's session
\* only by answering that client's login with 200 (the session is
\* AUTHENTICATED afterwards) or by answering that client's logout (the
\* session is ANONYMOUS afterwards).
C3_Transition(c) ==
    cookie'[c] # cookie[c] =>
       /\ req'[c].pc = "done"
       /\ \/ /\ req[c].route = "login" /\ ~Idle(c)
             /\ req'[c].route = "login"
             /\ resp'[c].status = 200
             /\ "user_id" \in cookie'[c].keys
          \/ /\ Idle(c)
             /\ req'[c].route = "logout"
             /\ "user_id" \in cookie[c].keys
             /\ cookie'[c] = EmptySession

C3_SessionLifecycle ==
    /\ \A c \in Clients : cookie[c] = EmptySession
    /\ [][\A c \in Clients : C3_Transition(c)]_vars

C3_Witness ==
    \E c \in Clients :
       /\ own[c].by = "logout"
       /\ Answered(c, "login")
       /\ req[c].exc = "fetch"
       /\ cookie[c] = EmptySession

\* C4: /home renders the home view, with the session's username, exactly when
\* the session holds user_id; otherwise it redirects to /login.
C4_HomeGuard ==
    \A c \in Clients :
       Answered(c, "home") =>
          IF "user_id" \in req[c].session.keys
          THEN /\ "username" \in req[c].session.keys
               /\ resp[c] = Render("home.html", [username |-> req[c].session.username])
          ELSE resp[c] = Redirect("/login")

C4_Witness ==
    \E c, d \in Clients :
       /\ Answered(c, "home") /\ resp[c].kind = "html"
       /\ Answered(d, "home") /\ resp[d].kind = "redirect"

\* C5: a logout of an AUTHENTICATED session is answered 200 success:true and
\* leaves the session empty; from then until the client's next successful
\* login every /api/check says logged_in:false and every /home redirects to
\* /login.
C5_LogoutEndsSession ==
    \A c \in Clients :
       /\ (Answered(c, "logout") /\ "user_id" \in req[c].session.keys) =>
             /\ resp[c].status = 200 /\ resp[c].body.success = TRUE
             /\ cookie[c].keys = {}
       /\ (own[c].by = "logout" /\ Answered(c, "check")) =>
             resp[c] = Json(200, [logged_in |-> FALSE])
       /\ (own[c].by = "logout" /\ Answered(c, "home")) =>
             resp[c] = Redirect("/login")

C5_Witness ==
    \E c, d \in Clients :
       /\ Answered(c, "logout") /\ "user_id" \in req[c].session.keys
       /\ own[d].by = "logout" /\ Answered(d, "check")

\* C6: a logout of an ANONYMOUS session is answered 200 success:true and the
\* session stays ANONYMOUS; a logout that follows a logout gives the same
\* response and the same session as the first.
C6_SecondLogout(c) ==
    (Answered(c, "logout") /\ req'[c].route = "logout" /\ req'[c].pc = "done") =>
       /\ resp'[c] = resp[c]
       /\ cookie'[c] = cookie[c]

C6_LogoutIdempotent ==
    /\ [](\A c \in Clients :
            (Answered(c, "logout") /\ ~("user_id" \in req[c].session.keys)) =>
               /\ resp[c] = Json(200, [success |-> TRUE, message |-> MsgLogout])
               /\ cookie[c] = EmptySession)
    /\ [][\A c \in Clients : C6_SecondLogout(c)]_vars

C6_Witness ==
    \E c \in Clients :
       /\ Answered(c, "logout")
       /\ req[c].session = EmptySession
       /\ own[c].by = "logout"

\* C7: a login in which connect, cursor creation, execute or fetch raised is
\* answered 500 with JSON success:false and a message, and no login ends
\* without the handler's own response.
C7_StoreErrorIs500 ==
    \A c \in Clients :
       /\ (Answered(c, "login") /\ req[c].exc \in {"connect", "cursor", "execute", "fetch"}) =>
             /\ resp[c].kind = "json" /\ resp[c].status = 500
             /\ resp[c].body.success = FALSE
             /\ resp[c].body.message = MsgServerError
       /\ Answered(c, "login") => resp[c].kind = "json"

C7_Witness ==
    \E c \in Clients :
       /\ Answered(c, "login")
       /\ req[c].exc = "execute"
       /\ resp[c].status = 500

\* C8: once a login has been answered, the connection it opened is closed.
C8_ConnectionClosedOnEveryPath ==
    \A c \in Clients :
       Answered(c, "login") => req[c].conn # "open"

\* C9: /api/check reports logged_in:true, / redirects to /home and /home
\* renders exactly when the session holds user_id.
C9_LoggedInIffUserId ==
    \A c \in Clients :
       LET has == "user_id" \in req[c].session.keys
       IN /\ Answered(c, "check") => (resp[c].body.logged_in <=> has)
          /\ Answered(c, "index") => (resp[c] = Redirect("/home") <=> has)
          /\ Answered(c, "home") => (resp[c].kind = "html" <=> has)
          /\ req[c].pc = "done" => (is_logged_in(cookie[c]) <=> "user_id" \in cookie[c].keys)

C9_Witness ==
    \E c, d \in Clients :
       /\ Answered(c, "index") /\ resp[c] = Redirect("/home")
       /\ Answered(d, "check") /\ resp[d].body.logged_in = FALSE

\* C10: a step changes the session, request and response of one client at
\* most, and every client's session is the one its own answered requests
\* produce, whatever the other clients did in between.
C10_OneClient(c) ==
    (cookie'[c] # cookie[c] \/ req'[c] # req[c] \/ resp'[c] # resp[c]) =>
       \A d \in Clients \ {c} :
          cookie'[d] = cookie[d] /\ req'[d] = req[d] /\ resp'[d] = resp[d]

C10_SessionsIsolated ==
    /\ [](\A c \in Clients : cookie[c] = own[c].session)
    /\ [][\A c \in Clients : C10_OneClient(c)]_vars

C10_Witness ==
    \E c, d \in Clients :
       /\ c # d
       /\ own[c].by = "logout"
       /\ req[c].route = "login" /\ req[c].pc = "fetch"
       /\ own[d].by = "login" /\ cookie[d].username = "alice"
       /\ req[d].route = "login" /\ req[d].pc = "execute"

\* C11: whatever requests have been answered, the users table holds exactly
\* the records it held at the start.
C11_StoreReadOnly == users = InitialUsers

C11_Witness ==
    \E c, d \in Clients :
       /\ Answered(c, "test_db") /\ resp[c].status = 200
       /\ resp[c].body.user_count = Cardinality(InitialUsers)
       /\ Answered(d, "login") /\ resp[d].status = 200

\* C12: a login whose body is absent, is no JSON or is no JSON object is
\* answered 500 with JSON success:false and a message, and no connection to
\* the store was opened for it.
C12_MalformedBodyIs500 ==
    \A c \in Clients :
       (Answered(c, "login") /\ req[c].body \in {"absent", "notjson", "nonobject"}) =>
          /\ resp[c].kind = "json" /\ resp[c].status = 500
          /\ resp[c].body.success = FALSE
          /\ resp[c].body.message = MsgServerError
          /\ req[c].conn = "none"

C12_Witness ==
    \E c, d \in Clients :
       /\ Answered(c, "login") /\ req[c].body = "notjson" /\ resp[c].status = 500
       /\ Answered(d, "login") /\ req[d].body = "nonobject" /\ resp[d].status = 500

\* C13: GET / redirects to /home when the session holds user_id and shows the
\* login page otherwise; the /home that follows such a redirect renders the
\* home view, and the /login that follows a redirect of /home renders the
\* login page, so no chain of redirects comes back to where it started.
C13_FollowRedirect(c) ==
    /\ (Answered(c, "index") /\ resp[c] = Redirect("/home")
          /\ req'[c].route = "home" /\ req'[c].pc = "done") =>
             resp'[c].kind = "html" /\ resp'[c].body.template = "home.html"
    /\ (Answered(c, "home") /\ resp[c] = Redirect("/login")
          /\ req'[c].route = "login_page" /\ req'[c].pc = "done") =>
             resp'[c].kind = "html" /\ resp'[c].body.template = "login.html"

C13_IndexRoutes ==
    /\ [](\A c \in Clients :
            Answered(c, "index") =>
               IF "user_id" \in req[c].session.keys
               THEN resp[c] = Redirect("/home")
               ELSE resp[c] = Render("login.html", [none |-> TRUE]))
    /\ [][\A c \in Clients : C13_FollowRedirect(c)]_vars

C13_Witness ==
    \E c, d \in Clients :
       /\ Answered(c, "index") /\ resp[c] = Redirect("/home")
       /\ Answered(d, "index") /\ resp[d].kind = "html"

\* C14: a login answered 401 or 500 leaves the session as the request found
\* it, also when the client was AUTHENTICATED.
C14_FailedLoginKeepsSession ==
    \A c \in Clients :
       (Answered(c, "login") /\ resp[c].status \in {401, 500}) =>
          cookie[c] = req[c].session

C14_Witness ==
    \E c, d \in Clients :
       /\ Answered(c, "login") /\ resp[c].status = 401
       /\ req[c].session.keys = {"user_id", "username"}
       /\ req[c].session.username = "bob" /\ cookie[c].user_id = 2
       /\ Answered(d, "login") /\ resp[d].status = 500
       /\ req[d].exc = "execute"
       /\ req[d].session.keys = {"user_id", "username"}

\* C15: every session is empty or holds exactly user_id and username, and
\* the two are the id and the username of one record of the store, also for
\* a login that several records match.
C15_SessionIsOneRecord ==
    \A c \in Clients :
       /\ cookie[c] = EmptySession \/ \E r \in users : cookie[c] = SessionOf(r)
       /\ req[c].session = EmptySession \/ \E r \in users : req[c].session = SessionOf(r)

C15_Witness ==
    \E c, d \in Clients :
       /\ Answered(c, "login") /\ req[c].data_username = "alice"
       /\ cookie[c].keys = {"user_id", "username"} /\ cookie[c].user_id = 3
       /\ cookie[d].keys = {"user_id", "username"} /\ cookie[d].user_id = 1

\* C16: a login answered 200 while the session was AUTHENTICATED leaves
\* exactly the id and username of a record with the submitted credentials in
\* the session; /api/check and /home after it report the username of that
\* login.
C16_ReloginReplacesIdentity ==
    \A c \in Clients :
       /\ (Answered(c, "login") /\ resp[c].status = 200
             /\ "user_id" \in req[c].session.keys) =>
             \E r \in MatchingRows(c) :
                /\ cookie[c] = SessionOf(r)
                /\ resp[c].body.username = r.username
       /\ (own[c].by = "login" /\ Answered(c, "home")) =>
             resp[c] = Render("home.html", [username |-> own[c].session.username])
       /\ (own[c].by = "login" /\ Answered(c, "check")) =>
             /\ resp[c].body.logged_in = TRUE
             /\ resp[c].body.username = own[c].session.username

C16_Witness ==
    \E c, d \in Clients :
       /\ Answered(c, "login") /\ resp[c].status = 200
       /\ req[c].session.keys = {"user_id", "username"}
       /\ req[c].session.username = "alice"
       /\ cookie[c].username = "bob" /\ cookie[c].user_id = 2
       /\ Answered(d, "home") /\ own[d].by = "login"

\* C17: after GET /, /login, /home, /api/check, /api/test-db or an unmatched
\* path has been answered, the session equals the one the request found.
ReadOnlyRoutes == {"index", "login_page", "home", "check", "test_db", "unmatched"}

C17_ReadOnlyRequestsKeepSession ==
    \A c \in Clients :
       (req[c].route \in ReadOnlyRoutes /\ req[c].pc = "done") =>
          cookie[c] = req[c].session

C17_Witness ==
    \E c, d \in Clients :
       /\ Answered(c, "home") /\ req[c].session.keys = {"user_id", "username"}
       /\ Answered(d, "unmatched") /\ req[d].session.keys = {"user_id", "username"}

\* C18: two rejected logins, one with a username no record has and one with
\* the username of a record and a wrong password, get the same response
\* (401, success:false, the same message), and from equal sessions they
\* leave equal sessions.
UsernameKnown(c) == \E r \in users : r.username = req[c].data_username

C18_RejectionRevealsNothing ==
    \A c, d \in Clients :
       (/\ LookedUp(c) /\ MatchingRows(c) = {} /\ ~UsernameKnown(c)
        /\ LookedUp(d) /\ MatchingRows(d) = {} /\ UsernameKnown(d)) =>
          /\ resp[c] = resp[d]
          /\ resp[c] = Json(401, [success |-> FALSE, message |-> MsgBadLogin])
          /\ req[c].session = req[d].session => cookie[c] = cookie[d]

C18_Witness ==
    \E c, d \in Clients :
       /\ LookedUp(c) /\ req[c].data_username = "eve"
       /\ LookedUp(d) /\ req[d].data_username = "bob" /\ req[d].data_password = "pw1"
       /\ req[c].session = req[d].session
       /\ "user_id" \in req[c].session.keys

====
